---- MODULE Spec2Model ----
(***************************************************************************)
(* Model of dicom_parser.py: load_dicom, denormalize_image and save_dicom  *)
(* acting on a small file system, with NumPy's float32 arithmetic          *)
(* (round to nearest, ties to even, 24-bit significand) computed bit by    *)
(* bit, so that rounding in the normalise / denormalise pipeline is what   *)
(* the code does and not an idealisation over the reals.                   *)
(***************************************************************************)
EXTENDS Integers, Sequences, FiniteSets, TLC

(***************************************************************************)
(* Bounds of the model.                                                    *)
(***************************************************************************)
\* stored samples of the input files range over 0..MaxPix and the top of
\* the 16-bit range
MaxPix == 2
\* provenance of a file is tracked for this many load/save round trips
MaxGen == 2
\* calls of load_dicom and save_dicom in a run with arbitrary arguments
MaxCalls == 3

(***************************************************************************)
(* float32                                                                 *)
(***************************************************************************)
\* significand width of np.float32
MantBits == 24
\* the factor of denormalize_image
Scale == 65535
\* width of the output sample type np.uint16
SampleBits == 16

RECURSIVE Pow2(_)
Pow2(n) == IF n <= 0 THEN 1 ELSE 2 * Pow2(n - 1)

RECURSIVE BitLen(_)
BitLen(n) == IF n <= 0 THEN 0 ELSE 1 + BitLen(n \div 2)

MantLo == Pow2(MantBits - 1)
MantHi == Pow2(MantBits)
U16Max == Pow2(SampleBits) - 1

\* A float32 value: k = "fin" is (-1)^s * m * 2^(-e) with m = 0 or
\* MantLo <= m < MantHi; k = "inf" is a signed infinity; k = "nan" is NaN.
Fin(s, m, e) == [k |-> "fin", s |-> s, m |-> m, e |-> e]
FZero == Fin(0, 0, 0)
FOne == Fin(0, MantLo, MantBits - 1)
FInf(s) == [k |-> "inf", s |-> s, m |-> 0, e |-> 0]
FNaN == [k |-> "nan", s |-> 0, m |-> 0, e |-> 0]

\* the literal 1e-8 as a float32: 0x322BCC77 = 11258999 * 2^-50
Epsilon == Fin(0, 11258999, 50)

\* astype(np.float32) of a non-negative integer below 2^24 (exact)
F32FromInt(n) ==
    IF n = 0 THEN FZero
    ELSE Fin(0, n * Pow2(MantBits - BitLen(n)), MantBits - BitLen(n))

\* the denominator without the epsilon term
FAddNothing(a) == a

\* a + 1e-8 in float32 for a non-negative integer-valued a. For a >= 1 the
\* unit in the last place of a is 2^-a.e >= 2^-23 and 1e-8 < 2^-26 is below
\* half of it, so the sum rounds back to a. An integer a never takes the
\* last branch.
FAddEpsilon(a) ==
    IF a.m = 0 THEN Epsilon
    ELSE IF Epsilon.e - MantBits >= a.e + 1 THEN a
    ELSE FNaN

\* bits of r/d after the binary point, appended to acc; <<quotient, rest>>
RECURSIVE LongDiv(_, _, _, _)
LongDiv(r, d, n, acc) ==
    IF n = 0 THEN <<acc, r>>
    ELSE IF 2 * r >= d THEN LongDiv(2 * r - d, d, n - 1, 2 * acc + 1)
    ELSE LongDiv(2 * r, d, n - 1, 2 * acc)

\* round to nearest, ties to even: q with the discarded part r out of d
RoundNearestEven(q, r, d) ==
    IF 2 * r > d \/ (2 * r = d /\ q % 2 = 1) THEN q + 1 ELSE q

\* renormalise a significand that rounding carried up to 2^24
Renorm(m, e) == IF m = MantHi THEN Fin(0, MantLo, e - 1) ELSE Fin(0, m, e)

\* a / b in float32, a and b non-negative
FDiv(a, b) ==
    IF a.k = "nan" \/ b.k = "nan" THEN FNaN
    ELSE IF b.m = 0 THEN (IF a.m = 0 THEN FNaN ELSE FInf(0))
    ELSE IF a.m = 0 THEN FZero
    ELSE LET ge == a.m >= b.m
             qr == IF ge THEN LongDiv(a.m - b.m, b.m, MantBits - 1, 1)
                   ELSE LongDiv(a.m, b.m, MantBits, 0)
             sh == IF ge THEN MantBits - 1 ELSE MantBits
         IN  Renorm(RoundNearestEven(qr[1], qr[2], b.m), sh + a.e - b.e)

\* np.clip(x, 0, 1) of one sample: NaN stays NaN
Clip01(x) ==
    IF x.k = "nan" THEN x
    ELSE IF x.k = "inf" THEN (IF x.s = 1 THEN FZero ELSE FOne)
    ELSE IF x.m = 0 \/ x.s = 1 THEN FZero
    ELSE IF x.e < FOne.e \/ (x.e = FOne.e /\ x.m > FOne.m) THEN FOne
    ELSE x

\* x * c in float32 for an integer c of at most 16 bits. The exact product
\* m * c is held as H * 2^16 + L and rounded to 24 bits.
FMulInt(x, c) ==
    IF x.k = "nan" THEN FNaN
    ELSE IF x.k = "inf" THEN (IF c = 0 THEN FNaN ELSE x)
    ELSE IF x.m = 0 \/ c = 0 THEN FZero
    ELSE LET mh == x.m \div 4096
             ml == x.m % 4096
             A == mh * c
             B == ml * c
             mid == (A % 16) * 4096 + B
             H == (A \div 16) + (mid \div 65536)
             L == mid % 65536
             len == IF H > 0 THEN 16 + BitLen(H) ELSE BitLen(L)
             t == IF len > MantBits THEN len - MantBits ELSE 0
             q == H * Pow2(16 - t) + (L \div Pow2(t))
             r == L % Pow2(t)
             up == RoundNearestEven(q, r, Pow2(t))
             z == Renorm(up, x.e - t)
         IN  Fin(x.s, z.m, z.e)

\* astype(np.uint16) of one sample: truncation toward zero when the
\* truncated value is representable; otherwise (NaN, infinities, values
\* outside the type) the C conversion is undefined and yields ub.
ToUint16(x, ub) ==
    IF x.k # "fin" THEN ub
    ELSE IF x.m = 0 THEN 0
    ELSE IF x.e >= MantBits THEN 0
    ELSE IF x.s = 1 THEN ub
    ELSE IF x.e < MantBits - SampleBits THEN ub
    ELSE x.m \div Pow2(x.e)

(***************************************************************************)
(* Buffers (numpy arrays): dtype, shape and the samples in row-major order *)
(***************************************************************************)
Buffer(dtype, rows, cols, data) ==
    [dtype |-> dtype, rows |-> rows, cols |-> cols, data |-> data]
NoImage == [dtype |-> "none", rows |-> 0, cols |-> 0, data |-> <<>>]

RECURSIVE SeqMin(_)
SeqMin(s) ==
    IF Len(s) = 1 THEN s[1]
    ELSE LET t == SeqMin(Tail(s)) IN IF s[1] < t THEN s[1] ELSE t

RECURSIVE SeqMax(_)
SeqMax(s) ==
    IF Len(s) = 1 THEN s[1]
    ELSE LET t == SeqMax(Tail(s)) IN IF s[1] > t THEN s[1] ELSE t

\* the denominator with 1 in place of the epsilon term
DenominatorPlusOne(px) == F32FromInt(SeqMax(px) - SeqMin(px) + 1)

\* np.max(pixel_array) - np.min(pixel_array) + 1e-8. The samples are
\* integers below 2^24, so their float32 images and the difference of two
\* of them are exact.
Denominator(px) == FAddEpsilon(F32FromInt(SeqMax(px) - SeqMin(px)))

\* normalisation that does not subtract the minimum
NormalizeNoShift(b) ==
    Buffer("float32", b.rows, b.cols,
           [i \in 1..Len(b.data) |->
               FDiv(F32FromInt(b.data[i]),
                    FAddEpsilon(F32FromInt(SeqMax(b.data) - SeqMin(b.data))))])

\* (pixel_array - min) / (max - min + 1e-8), element by element
Normalize(b) ==
    Buffer("float32", b.rows, b.cols,
           [i \in 1..Len(b.data) |->
               FDiv(F32FromInt(b.data[i] - SeqMin(b.data)), Denominator(b.data))])

\* denormalisation that does not clip
DenormalizeNoClip(b, ub) ==
    Buffer("uint16", b.rows, b.cols,
           [i \in 1..Len(b.data) |-> ToUint16(FMulInt(b.data[i], Scale), ub)])

\* denormalize_image: clip to [0, 1], scale by 65535, cast to uint16
DenormalizeImage(b, ub) ==
    Buffer("uint16", b.rows, b.cols,
           [i \in 1..Len(b.data) |->
               ToUint16(FMulInt(Clip01(b.data[i]), Scale), ub)])

(***************************************************************************)
(* Paths and files                                                         *)
(***************************************************************************)
PIn == <<"data", "sample.dcm">>
POut == <<"outputs", "sub", "new", "test.dcm">>
PBare == <<"test.dcm">>
Paths == {PIn, POut, PBare}

\* os.path.dirname
Dirname(p) == SubSeq(p, 1, Len(p) - 1)
\* the directories os.makedirs(d) leaves in place
Ancestors(d) == {SubSeq(d, 1, i) : i \in 1..Len(d)}

\* Python's None, and the zero-length value a None element is written as
None == "<None>"
EmptyValue == ""

IdKeys == {"PatientID", "StudyInstanceUID", "SeriesInstanceUID",
           "SOPInstanceUID", "Modality"}
UidKeys == {"StudyInstanceUID", "SeriesInstanceUID", "SOPInstanceUID"}
MetaKeys == IdKeys \cup {"Rows", "Columns", "BitsAllocated"}

NoFile == [kind |-> "none"]
\* a file that exists but is not a readable container
BadFile == [kind |-> "bad"]
DicomFile(tags, px) == [kind |-> "dicom", tags |-> tags, px |-> px]

\* getattr(dcm, k, default), dcm.get(k, default), metadata.get(k, default)
Get(m, k, default) == IF k \in DOMAIN m THEN m[k] ELSE default

\* dcm.pixel_array of a single-frame monochrome file. The container codec
\* is taken to read back the elements and samples that were written.
PixelArray(f) ==
    Buffer(IF f.tags["BitsAllocated"] = 16 THEN "uint16" ELSE "uint8",
           f.tags["Rows"], f.tags["Columns"], f.px)

\* the metadata dictionary built by load_dicom
LoadMetadata(tags) ==
    [k \in MetaKeys |->
        CASE k = "PatientID" -> Get(tags, k, "Unknown")
          [] k \in UidKeys -> Get(tags, k, None)
          [] k = "Modality" -> Get(tags, k, "Unknown")
          [] k = "Rows" -> tags["Rows"]
          [] k = "Columns" -> tags["Columns"]
          [] k = "BitsAllocated" -> Get(tags, k, 16)]

\* the default of metadata.get in save_dicom
SaveDefault(k) ==
    CASE k = "PatientID" -> "Unknown"
      [] k = "StudyInstanceUID" -> "1.2.3"
      [] k = "SeriesInstanceUID" -> "1.2.3.1"
      [] k = "SOPInstanceUID" -> "1.2.3.1.1"
      [] k = "Modality" -> "OT"

\* the value an element assigned v is stored with: None becomes a
\* zero-length value
Stored(v) == IF v = None THEN EmptyValue ELSE v

StructKeys == {"Rows", "Columns", "SamplesPerPixel",
               "PhotometricInterpretation", "BitsAllocated", "BitsStored",
               "HighBit", "PixelRepresentation"}
StampKeys == {"ContentDate", "ContentTime"}

\* a data set whose shape and bit depth are taken from the metadata
SaveTagsFromMetadata(out, metadata) ==
    [k \in IdKeys \cup StructKeys \cup StampKeys |->
        CASE k \in IdKeys -> Stored(Get(metadata, k, SaveDefault(k)))
          [] k = "Rows" -> Get(metadata, k, out.rows)
          [] k = "Columns" -> Get(metadata, k, out.cols)
          [] k = "SamplesPerPixel" -> 1
          [] k = "PhotometricInterpretation" -> "MONOCHROME2"
          [] k = "BitsAllocated" -> Get(metadata, k, 16)
          [] k = "BitsStored" -> 16
          [] k = "HighBit" -> 15
          [] k = "PixelRepresentation" -> 0
          [] k \in StampKeys -> "now"]

\* a data set with Rows and Columns exchanged
SaveTagsSwapped(out, metadata) ==
    [k \in IdKeys \cup StructKeys \cup StampKeys |->
        CASE k \in IdKeys -> Stored(Get(metadata, k, SaveDefault(k)))
          [] k = "Rows" -> out.cols
          [] k = "Columns" -> out.rows
          [] k = "SamplesPerPixel" -> 1
          [] k = "PhotometricInterpretation" -> "MONOCHROME2"
          [] k = "BitsAllocated" -> 16
          [] k = "BitsStored" -> 16
          [] k = "HighBit" -> 15
          [] k = "PixelRepresentation" -> 0
          [] k \in StampKeys -> "now"]

\* the data set save_dicom builds from the uint16 buffer out and metadata
SaveTags(out, metadata) ==
    [k \in IdKeys \cup StructKeys \cup StampKeys |->
        CASE k \in IdKeys -> Stored(Get(metadata, k, SaveDefault(k)))
          [] k = "Rows" -> out.rows
          [] k = "Columns" -> out.cols
          [] k = "SamplesPerPixel" -> 1
          [] k = "PhotometricInterpretation" -> "MONOCHROME2"
          [] k = "BitsAllocated" -> 16
          [] k = "BitsStored" -> 16
          [] k = "HighBit" -> 15
          [] k = "PixelRepresentation" -> 0
          [] k \in StampKeys -> "now"]

(***************************************************************************)
(* Inputs                                                                  *)
(***************************************************************************)
PixVals == (0..MaxPix) \cup {U16Max}

\* the tags of a single-frame monochrome input file with the identification
\* elements ids present
InputTags(ids, rows, cols, bits) ==
    [k \in ids \cup StructKeys |->
        CASE k = "PatientID" -> "P001"
          [] k = "StudyInstanceUID" -> "1.2.840.1"
          [] k = "SeriesInstanceUID" -> "1.2.840.1.1"
          [] k = "SOPInstanceUID" -> "1.2.840.1.1.1"
          [] k = "Modality" -> "CR"
          [] k = "Rows" -> rows
          [] k = "Columns" -> cols
          [] k = "SamplesPerPixel" -> 1
          [] k = "PhotometricInterpretation" -> "MONOCHROME2"
          [] k = "BitsAllocated" -> bits
          [] k = "BitsStored" -> bits
          [] k = "HighBit" -> bits - 1
          [] k = "PixelRepresentation" -> 0]

IdVariants == {IdKeys, {}, IdKeys \ UidKeys, IdKeys \ {"Modality"}}

\* files with every identification element and any samples
SampleFiles ==
    {DicomFile(InputTags(IdKeys, 1, 3, 16), px) : px \in [1..3 -> PixVals]}

\* files with fixed samples and any header
HeaderFiles ==
    {DicomFile(InputTags(ids, 3, 1, bits), <<0, 1, 2>>) :
        ids \in IdVariants, bits \in {8, 16}}

InputFiles == SampleFiles \cup HeaderFiles

\* -0.5, 1.5, 0.25 and 1.0, the out-of-range outputs of a processing step
ProcFloat ==
    Buffer("float32", 2, 2,
           <<Fin(1, MantLo, MantBits), Fin(0, 3 * (MantLo \div 2), MantBits - 1),
             Fin(0, MantLo, MantBits + 1), FOne>>)
\* NaN, +inf, -inf and 0.5
ProcSpecial ==
    Buffer("float32", 2, 2,
           <<FNaN, FInf(0), FInf(1), Fin(0, MantLo, MantBits)>>)
\* a buffer that is already unsigned 16-bit
ProcUint16 == Buffer("uint16", 2, 1, <<1000, 40000>>)
ProcBuffers == {ProcFloat, ProcSpecial, ProcUint16}

\* outcomes of an undefined float to uint16 conversion
UBVals == {0, 32768, U16Max}

\* the key sets a caller may cut the metadata down to
KeepSets == {{}, MetaKeys \ {"Modality"}, MetaKeys \ UidKeys}
Restrict(m, keep) == [k \in DOMAIN m \cap keep |-> m[k]]

(***************************************************************************)
(* State                                                                   *)
(***************************************************************************)
VARIABLES
    fs,     \* path -> file at that path, or NoFile
    dirs,   \* the directories that exist
    img,    \* the buffer returned by the last successful load_dicom
    meta,   \* the metadata returned by the last successful load_dicom
    last,   \* the most recent call: arguments and outcome
    ops,    \* the file-system accesses of the most recent call, in order
    calls,  \* the number of calls made, up to MaxCalls
    src,    \* history: the file the caller's buffer was loaded from
    prov    \* history: path -> the file a saved file was derived from

vars == <<fs, dirs, img, meta, last, ops, calls, src, prov>>

NoMeta == [k \in {} |-> None]
Snapshot(px, rows, cols) == [px |-> px, rows |-> rows, cols |-> cols]
NoSnapshot == Snapshot(<<>>, 0, 0)
NoProv == [gen |-> 0, parent |-> NoSnapshot]
NoSrc == [loaded |-> FALSE, at |-> NoSnapshot, gen |-> 0, parent |-> NoSnapshot]

\* a call: its arguments, the buffer it serialised and its outcome
Call(op, path, status, b, m, out) ==
    [op |-> op, path |-> path, status |-> status, img |-> b, meta |-> m,
     out |-> out]
LoadCall(path, status) == Call("load", path, status, NoImage, NoMeta, NoImage)
NoCall == Call("none", <<>>, "none", NoImage, NoMeta, NoImage)
Access(op, path) == <<op, path>>

Min(a, b) == IF a < b THEN a ELSE b

\* nothing loaded yet; the input path holds one of files, a file that is
\* not a container, or nothing
InitWith(files) ==
    /\ \E f \in files \cup {NoFile, BadFile} :
          fs = [p \in Paths |-> IF p = PIn THEN f ELSE NoFile]
    /\ dirs = {Dirname(PIn)}
    /\ img = NoImage
    /\ meta = NoMeta
    /\ last = NoCall
    /\ ops = <<>>
    /\ calls = 0
    /\ src = NoSrc
    /\ prov = [p \in Paths |-> NoProv]

Init == InitWith(HeaderFiles)
InitRoundTrip == InitWith(InputFiles)

\* load_dicom without the existence check: the file is opened at once
LoadDicomNoCheck(p) ==
    /\ calls' = Min(calls + 1, MaxCalls)
    /\ IF fs[p] = NoFile
       THEN /\ last' = LoadCall(p, "FileNotFoundError")
            /\ ops' = <<Access("read", p)>>
            /\ UNCHANGED <<fs, dirs, img, meta, src, prov>>
       ELSE IF fs[p].kind = "bad"
       THEN /\ last' = LoadCall(p, "ParseError")
            /\ ops' = <<Access("read", p)>>
            /\ UNCHANGED <<fs, dirs, img, meta, src, prov>>
       ELSE /\ img' = Normalize(PixelArray(fs[p]))
            /\ meta' = LoadMetadata(fs[p].tags)
            /\ last' = LoadCall(p, "ok")
            /\ ops' = <<Access("read", p)>>
            /\ src' = [loaded |-> TRUE,
                       at |-> Snapshot(fs[p].px, fs[p].tags["Rows"],
                                       fs[p].tags["Columns"]),
                       gen |-> prov[p].gen, parent |-> prov[p].parent]
            /\ UNCHANGED <<fs, dirs, prov>>

(***************************************************************************)
(* load_dicom(file_path)                                                   *)
(***************************************************************************)
LoadDicom(p) ==
    /\ calls' = Min(calls + 1, MaxCalls)
    /\ IF fs[p] = NoFile
       THEN /\ last' = LoadCall(p, "FileNotFoundError")
            /\ ops' = <<Access("exists", p)>>
            /\ UNCHANGED <<fs, dirs, img, meta, src, prov>>
       ELSE IF fs[p].kind = "bad"
       THEN /\ last' = LoadCall(p, "ParseError")
            /\ ops' = <<Access("exists", p), Access("read", p)>>
            /\ UNCHANGED <<fs, dirs, img, meta, src, prov>>
       ELSE /\ img' = Normalize(PixelArray(fs[p]))
            /\ meta' = LoadMetadata(fs[p].tags)
            /\ last' = LoadCall(p, "ok")
            /\ ops' = <<Access("exists", p), Access("read", p)>>
            /\ src' = [loaded |-> TRUE,
                       at |-> Snapshot(fs[p].px, fs[p].tags["Rows"],
                                       fs[p].tags["Columns"]),
                       gen |-> prov[p].gen, parent |-> prov[p].parent]
            /\ UNCHANGED <<fs, dirs, prov>>

(***************************************************************************)
(* save_dicom(img, metadata, save_path)                                    *)
(***************************************************************************)
\* every buffer is denormalised, a uint16 one too (np.clip leaves 0 and 1)
SerialisedAlways(b, ub) ==
    IF b.dtype = "uint16"
    THEN Buffer("uint16", b.rows, b.cols,
                [i \in 1..Len(b.data) |-> IF b.data[i] >= 1 THEN Scale ELSE 0])
    ELSE DenormalizeImage(b, ub)

\* the buffer that is serialised: denormalised unless already uint16
Serialised(b, ub) == IF b.dtype # "uint16" THEN DenormalizeImage(b, ub) ELSE b

\* b, m and q are the arguments; ub resolves undefined conversions
SaveDicom(b, m, q, ub) ==
    /\ b # NoImage
    /\ calls' = Min(calls + 1, MaxCalls)
    /\ LET out == Serialised(b, ub)
           dir == Dirname(q)
       IN  IF dir = <<>>
           THEN \* os.makedirs("") raises FileNotFoundError
                /\ last' = Call("save", q, "FileNotFoundError", b, m, out)
                /\ ops' = <<Access("makedirs", dir)>>
                /\ UNCHANGED <<fs, dirs, prov>>
           ELSE /\ dirs' = dirs \cup Ancestors(dir)
                /\ fs' = [fs EXCEPT ![q] = DicomFile(SaveTags(out, m), out.data)]
                /\ last' = Call("save", q, "ok", b, m, out)
                /\ ops' = <<Access("makedirs", dir), Access("write", q)>>
                /\ prov' = [prov EXCEPT ![q] =
                              IF src.loaded /\ b = img /\ m = meta
                              THEN [gen |-> Min(src.gen + 1, MaxGen),
                                    parent |-> src.at]
                              ELSE NoProv]
    /\ UNCHANGED <<img, meta, src>>

(***************************************************************************)
(* Callers                                                                 *)
(***************************************************************************)
\* the round trip of the module's entry point: what was loaded is saved
SaveLoaded == \E q \in Paths, ub \in UBVals : SaveDicom(img, meta, q, ub)

\* a processed buffer is saved with the loaded metadata
SaveProcessed ==
    \E b \in ProcBuffers, q \in Paths, ub \in UBVals : SaveDicom(b, meta, q, ub)

\* the loaded buffer is saved with a part of the metadata
SavePartial ==
    \E keep \in KeepSets, q \in Paths, ub \in UBVals :
        SaveDicom(img, Restrict(meta, keep), q, ub)

Load == \E p \in Paths : LoadDicom(p)

\* any number of load / save round trips
NextRoundTrip ==
    \/ Load
    \/ SaveLoaded

\* a bounded number of calls with arbitrary arguments
Next ==
    \/ calls < MaxCalls /\ Load
    \/ calls < MaxCalls /\ SaveLoaded
    \/ calls < MaxCalls /\ SaveProcessed
    \/ calls < MaxCalls /\ SavePartial

Spec == Init /\ [][Next]_vars
SpecRoundTrip == InitRoundTrip /\ [][NextRoundTrip]_vars

(***************************************************************************)
(* Predicates used by the properties                                       *)
(***************************************************************************)
\* x < 0
FNeg(x) == x.k # "nan" /\ x.s = 1 /\ (x.k = "inf" \/ x.m > 0)
\* x > 1
FGtOne(x) ==
    /\ x.k # "nan"
    /\ x.s = 0
    /\ \/ x.k = "inf"
       \/ x.m > 0 /\ (x.e < FOne.e \/ (x.e = FOne.e /\ x.m > FOne.m))
\* 0 <= x <= 1
FInUnit(x) == x.k = "fin" /\ (x.m = 0 \/ (x.s = 0 /\ ~FGtOne(x)))
\* x > 0
FPositive(x) == x.k = "fin" /\ x.s = 0 /\ x.m > 0

AbsDiff(a, b) == IF a < b THEN b - a ELSE a - b
Constant(px) == SeqMax(px) = SeqMin(px)
\* some sample lies strictly between the minimum and the maximum
HasInner(px) == \E i \in 1..Len(px) : SeqMin(px) < px[i] /\ px[i] < SeqMax(px)

\* n * 65535 = RescaleQuot * d + RescaleRem for 0 <= n <= d, 1 <= d < 2^16,
\* computed without leaving 32 bits: first n * 65536 = Q * d + R
RescaleQR(n, d) ==
    LET q1 == (n * 256) \div d
        r1 == (n * 256) % d
        Q == q1 * 256 + ((r1 * 256) \div d)
        R == (r1 * 256) % d
    IN  IF R >= n THEN <<Q, R - n>> ELSE <<Q - 1, R - n + d>>

\* | o - n * 65535 / d | <= 1, and o = 0 when d = 0
WithinOneStep(o, n, d) ==
    IF d = 0 THEN o = 0
    ELSE LET qr == RescaleQR(n, d)
         IN  IF qr[2] = 0 THEN qr[1] - 1 <= o /\ o <= qr[1] + 1
             ELSE qr[1] <= o /\ o <= qr[1] + 1

\* every sample of out is within one step of the sample of px rescaled
\* from the range of px to 0..65535
RescaledFrom(out, px) ==
    /\ Len(out) = Len(px)
    /\ \A i \in 1..Len(px) :
          WithinOneStep(out[i], px[i] - SeqMin(px), SeqMax(px) - SeqMin(px))

\* the buffer denormalize_image makes of the caller's loaded buffer
Reloaded == DenormalizeImage(img, 0).data

(***************************************************************************)
(* Properties                                                              *)
(***************************************************************************)
\* C1 (as stated): after load_dicom, denormalising the normalised buffer
\* gives back every original sample to within one step.
C1_OriginalWithinOneStep ==
    src.loaded =>
        \A i \in 1..Len(src.at.px) : AbsDiff(Reloaded[i], src.at.px[i]) <= 1

\* C1 (amended): denormalising the normalised buffer gives every sample
\* rescaled from the buffer's own range [min, max] to [0, 65535], to within
\* one step; a constant buffer gives zeros.
C1_RescaledWithinOneStep ==
    src.loaded => RescaledFrom(Reloaded, src.at.px)

C1_Witness ==
    /\ src.loaded
    /\ HasInner(src.at.px)
    /\ \E i \in 1..Len(src.at.px) : AbsDiff(Reloaded[i], src.at.px[i]) > 1

\* C2 (as stated): load, save, load returns the Rows and Columns of the
\* first load and a buffer that denormalises to the original samples to
\* within one step.
C2_RoundTripOriginal ==
    (src.loaded /\ src.gen >= 1) =>
        /\ meta["Rows"] = src.parent.rows
        /\ meta["Columns"] = src.parent.cols
        /\ \A i \in 1..Len(src.parent.px) :
              AbsDiff(Reloaded[i], src.parent.px[i]) <= 1

\* C2 (amended): load, save, load returns the Rows and Columns of the first
\* load and a buffer that denormalises exactly to the samples of the saved
\* file, which are the original samples rescaled from [min, max] to
\* [0, 65535] to within one step.
C2_RoundTripRescaled ==
    (src.loaded /\ src.gen >= 1) =>
        /\ meta["Rows"] = src.parent.rows
        /\ meta["Columns"] = src.parent.cols
        /\ Reloaded = src.at.px
        /\ RescaledFrom(Reloaded, src.parent.px)

C2_Witness ==
    /\ src.loaded
    /\ src.gen = 1
    /\ last = LoadCall(POut, "ok")
    /\ HasInner(src.parent.px)
    /\ src.parent.rows # src.parent.cols

\* C3: every sample of the buffer load_dicom returns is in [0, 1] and the
\* denominator of the normalisation is strictly positive, also for a
\* constant buffer.
C3_NormalizedInUnit ==
    src.loaded =>
        /\ \A i \in 1..Len(img.data) : FInUnit(img.data[i])
        /\ FPositive(Denominator(src.at.px))

C3_Witness ==
    /\ src.loaded
    /\ Constant(src.at.px)
    /\ src.at.px[1] > 0

C5_NotFoundBeforeAnyAccess ==
    [][(last'.op = "load" /\ fs[last'.path] = NoFile)
          => /\ last'.status = "FileNotFoundError"
             /\ ops' = <<Access("exists", last'.path)>>
             /\ fs' = fs /\ dirs' = dirs
             /\ img' = img /\ meta' = meta]_vars

C5_Witness ==
    /\ last.op = "load"
    /\ last.status = "FileNotFoundError"
    /\ fs[last.path] = NoFile

\* C6: every identification field save_dicom writes is the metadata's value
\* when the metadata supplies one and the writer's default otherwise, also
\* for the metadata load_dicom returns for a file without those fields.
C6_IdentificationDefaults ==
    (last.op = "save" /\ last.status = "ok") =>
        \A k \in IdKeys :
            fs[last.path].tags[k] =
                IF k \in DOMAIN last.meta /\ last.meta[k] # None
                THEN last.meta[k]
                ELSE SaveDefault(k)

\* C7: for every destination path save_dicom makes sure the directory
\* exists, then writes the file, and succeeds with the file in place.
C7_SaveCreatesDirectories ==
    last.op = "save" =>
        /\ last.status = "ok"
        /\ ops = <<Access("makedirs", Dirname(last.path)),
                   Access("write", last.path)>>
        /\ Ancestors(Dirname(last.path)) \subseteq dirs
        /\ fs[last.path].kind = "dicom"

\* C8: the structural fields of a written file come from the buffer and
\* fixed values, whatever Rows, Columns and BitsAllocated the metadata
\* carries.
C8_StructuralFromBuffer ==
    (last.op = "save" /\ last.status = "ok") =>
        LET t == fs[last.path].tags
        IN  /\ t["Rows"] = last.img.rows
            /\ t["Columns"] = last.img.cols
            /\ t["SamplesPerPixel"] = 1
            /\ t["PhotometricInterpretation"] = "MONOCHROME2"
            /\ t["BitsAllocated"] = 16
            /\ t["BitsStored"] = 16
            /\ t["HighBit"] = 15
            /\ t["PixelRepresentation"] = 0

C8_Witness ==
    /\ last.op = "save"
    /\ last.status = "ok"
    /\ "Rows" \in DOMAIN last.meta
    /\ last.meta["Rows"] # last.img.rows
    /\ last.meta["Columns"] # last.img.cols
    /\ last.meta["BitsAllocated"] # 16

\* C9: a uint16 buffer is written sample for sample; any other buffer is
\* written as denormalize_image makes it.
C9_DenormalizeUnlessUint16 ==
    (last.op = "save" /\ last.status = "ok") =>
        IF last.img.dtype = "uint16"
        THEN fs[last.path].px = last.img.data
        ELSE \E ub \in UBVals :
                fs[last.path].px = DenormalizeImage(last.img, ub).data

C9_Witness ==
    /\ last.op = "save"
    /\ last.status = "ok"
    /\ last.img = ProcUint16
    /\ fs[last.path].px = ProcUint16.data

\* C10: a file made by a load / save round trip of a non-constant input is
\* reproduced sample for sample, with its Rows and Columns, by a further
\* round trip.
C10_RoundTripIdempotent ==
    \A q \in Paths :
        (prov[q].gen >= 2 /\ ~Constant(prov[q].parent.px)) =>
            /\ fs[q].px = prov[q].parent.px
            /\ fs[q].tags["Rows"] = prov[q].parent.rows
            /\ fs[q].tags["Columns"] = prov[q].parent.cols

C10_Witness ==
    \E q \in Paths :
        /\ prov[q].gen >= 2
        /\ HasInner(prov[q].parent.px)
        /\ fs[q].px = prov[q].parent.px

====
